---- MODULE Spec2Model ----
(***************************************************************************)
(* Order orchestration, verification tokens and the chat bridge of the     *)
(* store bot: server.js (src/unnamed/part_000), index.js, db.js and        *)
(* migrate.js.                                                             *)
(*                                                                         *)
(* Every handler is an async function.  `procs` is the bag of the running  *)
(* handlers, each a record of its locals; an action is a stretch of one handler that other      *)
(* handlers cannot observe as more than one step: a stretch ends where     *)
(* the handler has read what it acts on and its next effect (a database    *)
(* write, a platform call, a map update) is still to come.  Other handlers *)
(* run between any two actions, as on the Node event loop.  `last` is the  *)
(* answer the latest step gave to a request, if it gave one.               *)
(***************************************************************************)
EXTENDS Integers, Sequences, FiniteSets, Bags, TLC

\* ---------------------------------------------------------------- bounds
MaxUploads == 1      \* receipts uploaded in one behaviour
MaxChannels == 2     \* channels created in one behaviour
MaxClock == 1        \* last value of the clock
MaxMessages == 2     \* chat messages sent in one behaviour
MaxTickets == 2      \* payment channels opened in one behaviour
MaxTimers == 2       \* deletion timers set for ticket channels

\* ------------------------------------------------------------- constants
TTL == 1             \* setTimeout(..., 3600000): one hour, the clock's unit

OrderIds == {1}
ProductIds == {1}
RequestedProducts == {1, 2}   \* :productId of a request; 2 is no product
Users == {1, 2}
Owner(o) == 1        \* "userId" column of the order rows
BodyActions == {"approve", "reject", "deliver", "other"}

VARIABLES
    orders,              \* table orders: id -> row
    products,            \* table products: id -> stock (-1 is unlimited)
    verificationTokens,  \* server.js Map: token id -> payload
    tokenTimers,         \* pending setTimeout(delete token): id -> due time
    issuedAt,            \* history: issue time and action of every token
    channels,            \* ids of the guild channels that exist
    createdChannels,     \* history: every channel ever created, by id
    deleteTimers,        \* pending setTimeout(channel.delete): bag of channels
    scheduled,           \* history: bag of the channels of every such timer
    appended,            \* history: per order, the appends the database ran
    room,                \* history: events emitted to each order's room
    sockets,             \* per user's socket: rooms joined, events received
    now,                 \* clock
    procs,               \* handlers suspended at an await
    last,                \* the request the latest step answered, and its answer
    answered             \* history: token ids a POST was answered for

vars == <<orders, products, verificationTokens, tokenTimers, issuedAt, channels,
          createdChannels, deleteTimers, scheduled, appended, room, sockets,
          now, procs, last, answered>>

\* ------------------------------------------------------------ data model
NoMsg == [author |-> "none", content |-> 0, timestamp |-> 0]

\* a jsonb column: SQL NULL, or a jsonb array
SqlNull == [null |-> TRUE, list |-> <<>>]
Jsonb(list) == [null |-> FALSE, list |-> list]

\* migrate.js: order.messages ? JSON.stringify(order.messages) : null
MigratedMessages == {SqlNull, Jsonb(<<>>)}

OrderRow(u, m) ==
    [userId |-> u, status |-> "analise", receiptUrl |-> "",
     ticketChannelId |-> 0, messages |-> m]

\* SELECT * FROM products WHERE id = $1 : is there a row
getProductById(prods, productId) == productId \in DOMAIN prods

\* a decrement without its guard
decreaseProductStockUnguarded(prods, productId) ==
    IF productId \notin DOMAIN prods THEN prods
    ELSE [prods EXCEPT ![productId] = @ - 1]

\* UPDATE products SET stock = stock - 1 WHERE id = $1 AND stock > 0
decreaseProductStock(prods, productId) ==
    IF productId \in DOMAIN prods /\ prods[productId] > 0
    THEN [prods EXCEPT ![productId] = @ - 1]
    ELSE prods

\* SELECT * FROM orders WHERE id = $1 AND "userId" = $2 : is there a row
getOrderById(ords, orderId, userId) ==
    orderId \in DOMAIN ords /\ ords[orderId].userId = userId

\* an update that is not written
updateOrderStatusLost(ords, orderId, status, receiptUrl, ticketChannelId) ==
    ords

\* UPDATE orders SET status = $2 [, "receiptUrl"] [, "ticketChannelId"]
\* WHERE id = $1.  A falsy extra field ("" or 0) is not written.
updateOrderStatus(ords, orderId, status, receiptUrl, ticketChannelId) ==
    IF orderId \notin DOMAIN ords THEN ords
    ELSE [ords EXCEPT ![orderId] =
            [@ EXCEPT !.status = status,
                      !.receiptUrl = IF receiptUrl # "" THEN receiptUrl ELSE @,
                      !.ticketChannelId =
                          IF ticketChannelId # 0 THEN ticketChannelId ELSE @]]

\* jsonb || jsonb ; NULL || x is NULL
JsonbConcat(col, msg) ==
    IF col.null THEN col ELSE Jsonb(Append(col.list, msg))

\* UPDATE orders SET messages = messages || $2::jsonb WHERE id = $1
addMessageToOrder(ords, orderId, msg) ==
    IF orderId \notin DOMAIN ords THEN ords
    ELSE [ords EXCEPT ![orderId].messages = JsonbConcat(@, msg)]

\* what a reader of the row gets as the transcript
Transcript(ords, orderId) ==
    IF ords[orderId].messages.null THEN <<>> ELSE ords[orderId].messages.list

\* a delete that removes nothing
TokenKept(toks, id) == toks

\* verificationTokens.delete(id)
TokenDelete(toks, id) == [t \in DOMAIN toks \ {id} |-> toks[t]]

\* verificationTokens.set(id, payload)
TokenSet(toks, id, payload) ==
    [t \in DOMAIN toks \cup {id} |-> IF t = id THEN payload ELSE toks[t]]

\* a token set without its timer
TimerNotSet(timers, id, due) == timers

\* setTimeout(() => verificationTokens.delete(id), 3600000)
TimerSet(timers, id, due) ==
    [t \in DOMAIN timers \cup {id} |-> IF t = id THEN due ELSE timers[t]]

EmptyMap == [t \in {} |-> 0]

\* io.to(orderId).emit('new_message_from_server', message)
Emit(rm, orderId, msg) ==
    [o \in DOMAIN rm \cup {orderId} |->
        IF o = orderId
        THEN (IF o \in DOMAIN rm THEN Append(rm[o], msg) ELSE <<msg>>)
        ELSE rm[o]]

\* the event reaches every socket that joined the order's room, but the
\* socket of `sender` (socket.to); io.to has no sender (0)
Broadcast(socks, orderId, msg, sender) ==
    [u \in DOMAIN socks |->
        IF orderId \in socks[u].rooms /\ u # sender
        THEN [socks[u] EXCEPT !.inbox = @ \cup {<<orderId, msg>>}]
        ELSE socks[u]]

\* ---------------------------------------------------------------- handlers
\* two requests at a time: the two browser tabs of the operator, or an
\* upload or a chat message next to a verification
Slots == {1, 2}
Handlers == BagToSet(procs)

Idle ==
    [kind |-> "none", pc |-> "idle",
     orderId |-> 0, userId |-> 0, tok |-> 0, action |-> "none",
     productId |-> 0, chan |-> 0, made |-> 0, msg |-> NoMsg,
     notice |-> "none",
     late |-> FALSE, stale |-> FALSE, retry |-> FALSE, raced |-> FALSE]

NewProc(kind, pc) == [Idle EXCEPT !.kind = kind, !.pc = pc]

\* a direct message or channel message of a handler is delivered, or its
\* fetch or send rejects
Notices == {"sent", "failed"}

\* handler p, once the outcome of its notification is known
Noted(p, n) == [p EXCEPT !.notice = n]

\* a new request can be taken in
FreeSlot == BagCardinality(procs) < Cardinality(Slots)

\* the running handlers that are among the records of S, each counted as
\* often as it runs
Running(S) == BagCardinality([r \in S \cap Handlers |-> procs[r]])

\* what a request was and what it was answered
AnswerOf(pr, result) ==
    [kind |-> pr.kind, tok |-> pr.tok, action |-> pr.action,
     orderId |-> pr.orderId, userId |-> pr.userId,
     productId |-> pr.productId, content |-> pr.msg.content,
     notice |-> pr.notice, result |-> result, late |-> pr.late, stale |-> pr.stale,
     retry |-> pr.retry, raced |-> pr.raced]

NoAnswer == AnswerOf(Idle, "none")

\* the histories, when request pr ends with `result`
Book(pr, result) ==
    /\ last' = AnswerOf(pr, result)
    /\ answered' = IF pr.kind = "post" /\ result \in {"success", "failure"}
                   THEN answered \cup {pr.tok} ELSE answered

\* a step that answers no request
Quiet ==
    /\ last' = NoAnswer
    /\ UNCHANGED answered

\* a request arrives and its handler pr runs up to its first await
Enter(pr) ==
    /\ procs' = procs (+) SetToBag({pr})
    /\ Quiet

\* handler p goes on to its next await, its locals then being pr
Continue(p, pr) ==
    /\ procs' = (procs (-) SetToBag({p})) (+) SetToBag({pr})
    /\ Quiet

Step(p, pc) == Continue(p, [p EXCEPT !.pc = pc])

\* a POST is answered with a success result: every POST of the same token
\* that is suspended at that time arrived before this one finished
Told(pr, result, q) ==
    IF pr.kind = "post" /\ result = "success" /\ q.kind = "post"
       /\ q.tok = pr.tok
    THEN [q EXCEPT !.raced = TRUE] ELSE q

\* handler p answers its request, pr being p with what became of its
\* notification
Answer(p, pr, result) ==
    /\ procs' = LET Others == procs (-) SetToBag({p})
                    Mark(q) == Told(p, result, q)
                IN  BagOfAll(Mark, Others)
    /\ Book(pr, result)

\* handler p answers its request
Reply(p, result) == Answer(p, p, result)

\* The runtime exits on an unhandled rejection: the token map and every
\* pending timer are lost with the process, every suspended handler dies,
\* and the durable rows and the guild's channels remain.
ProcessExit ==
    /\ procs' = EmptyBag
    /\ verificationTokens' = EmptyMap
    /\ tokenTimers' = EmptyMap
    /\ deleteTimers' = EmptyBag

\* The handler's promise rejects and nothing catches it: the request is
\* never answered.  The runtime either only warns, or exits.
ThrowAs(p, pr) ==
    /\ Book(pr, "unanswered")
    /\ \/ /\ procs' = procs (-) SetToBag({p})
          /\ UNCHANGED <<verificationTokens, tokenTimers, deleteTimers>>
       \/ ProcessExit

Throw(p) == ThrowAs(p, p)

\* the principals of a channel's permissionOverwrites: guild.id (everyone),
\* a member, the bot's own user, ADMIN_ROLE_ID
GuildEveryone == <<"guild", 0>>
Member(u) == <<"user", u>>
BotUser == <<"bot", 0>>
AdminRole == <<"role", 0>>

\* a chat channel that everyone may view
ChatChannelOpen(o, u) ==
    [kind |-> "sitechat", orderId |-> o, userId |-> u,
     deny |-> {}, allow |-> {Member(u), AdminRole}]

\* the chat channel made by guild.channels.create, its topic
\* `Chat do Pedido do Site | OrderID: ${orderId} | UserID: ${userId}`
ChatChannel(o, u) ==
    [kind |-> "sitechat", orderId |-> o, userId |-> u,
     deny |-> {GuildEveryone}, allow |-> {Member(u), AdminRole}]

\* the payment channel `pagamento-...` of a ticket.  Its topic is what the
\* guild holds now: "ok" is `Ticket: ... | User: ${user.id} | ProductID:
\* ${productId}` as created, "nouser" a topic without the User field, "none"
\* no topic
Topics == {"ok", "nouser", "none"}
PaymentChannel(u, productId, topic) ==
    [kind |-> "payment", orderId |-> 0, userId |-> u,
     productId |-> productId, topic |-> topic,
     deny |-> {GuildEveryone},
     allow |-> {Member(u), BotUser, AdminRole}]

\* the delivery channel `entrega-...` made by processPaymentConfirmation
DeliveryChannel(u, productId) ==
    [kind |-> "delivery", orderId |-> 0, userId |-> u,
     productId |-> productId, topic |-> "ok",
     deny |-> {GuildEveryone}, allow |-> {Member(u), AdminRole}]

\* crypto.randomBytes(16): an id never used before
FreshToken == Len(issuedAt) + 1

\* the time a token's TTL has elapsed at
ExpiresAt(t) == issuedAt[t].at + TTL

\* the state after the migration and the start of the server: every order
\* row drawn from `rows`, the guild holding the channels `chans`
StartWith(rows, chans, stocks) ==
    /\ orders \in [OrderIds -> rows]
    /\ products \in [ProductIds -> stocks]
    /\ verificationTokens = EmptyMap
    /\ tokenTimers = EmptyMap
    /\ issuedAt = <<>>
    /\ channels = 1..Len(chans)
    /\ createdChannels = chans
    /\ deleteTimers = EmptyBag
    /\ scheduled = EmptyBag
    /\ appended = [o \in OrderIds |-> <<>>]
    /\ room = [o \in OrderIds |-> <<>>]
    /\ sockets = [u \in Users |-> [rooms |-> {}, inbox |-> {}]]
    /\ now = 0
    /\ procs = EmptyBag
    /\ last = NoAnswer
    /\ answered = {}

\* the catalogue holds one unit of each product
Start(rows, chans) == StartWith(rows, chans, {1})

\* one order awaiting its receipt, no chat channel yet
Init == Start({OrderRow(Owner(1), Jsonb(<<>>))}, <<>>)

\* ------------------------------------------------------------------ clock
\* the clock advances, up to `limit`
TickTo(limit) ==
    /\ now < limit
    /\ now' = now + 1
    /\ UNCHANGED <<orders, verificationTokens, tokenTimers, issuedAt, channels,
                   createdChannels, deleteTimers, scheduled, appended, room, sockets,
                   procs, products>>
    /\ Quiet

Tick == TickTo(MaxClock)

\* the callback of setTimeout(() => verificationTokens.delete(id), 3600000)
TokenTimerFire ==
    \E t \in DOMAIN tokenTimers :
        /\ now >= tokenTimers[t]
        /\ verificationTokens' = TokenDelete(verificationTokens, t)
        /\ tokenTimers' = TokenDelete(tokenTimers, t)
        /\ UNCHANGED <<orders, issuedAt, channels, createdChannels,
                       deleteTimers, scheduled, appended, room, sockets, now, procs,
                       products>>
        /\ Book([NewProc("timer", "fire") EXCEPT !.tok = t], "evicted")

\* An upload or an approval starts only while the behaviour's budget of
\* uploads and of channels covers it.
Uploads == {t \in 1..Len(issuedAt) : issuedAt[t].action = "none"}
Uploading == {q \in Handlers : q.kind = "upload"}
Creators == {q \in Handlers : q.pc = "a_write1"}
MayUpload == Cardinality(Uploads) + Running(Uploading) < MaxUploads
MayCreate == Len(createdChannels) + Running(Creators) < MaxChannels
MayStart(action) == action = "approve" => MayCreate
MayStartFor(action, type) == type = "site" => MayStart(action)

\* the token part of sendProofForVerification / sendDeliveryNotification:
\* verificationTokens.set(id, payload); setTimeout(delete, 3600000).  The
\* direct message to the owner that follows is inside try/catch.
MintToken(payload) ==
    /\ verificationTokens' = TokenSet(verificationTokens, FreshToken, payload)
    /\ tokenTimers' = TimerSet(tokenTimers, FreshToken, now + TTL)
    /\ issuedAt' = Append(issuedAt, [at |-> now, action |-> payload.action])

SiteCtx(o, u) ==
    [type |-> "site", orderId |-> o, userId |-> u, channelId |-> 0,
     productId |-> 0]

\* context: { type: 'ticket', channelId, userId, productId }
TicketCtx(c, u, productId) ==
    [type |-> "ticket", orderId |-> 0, userId |-> u, channelId |-> c,
     productId |-> productId]

\* sendProofForVerification: {...verificationData}, no action field
ProofPayload(ctx) == [action |-> "none", context |-> ctx]
\* a delivery notification whose token has no action field
DeliveryPayloadBare(ctx) == [action |-> "none", context |-> ctx]

\* sendDeliveryNotification: action 'deliver'
DeliveryPayload(ctx) == [action |-> "deliver", context |-> ctx]

\* ---------------------------------------------- POST /order/upload/:orderId
\* session and file checks pass; getOrderById is awaited, then the upload to
\* the image host, which may throw into the handler's catch (500).
UploadStart(o, u) ==
    /\ \/ /\ FreeSlot
          /\ MayUpload
          /\ Enter([NewProc("upload", "u_write") EXCEPT
                      !.orderId = o, !.userId = u])
       \/ /\ FreeSlot
          /\ Book([NewProc("upload", "u_cloud") EXCEPT
                              !.orderId = o, !.userId = u], "error500")
          /\ UNCHANGED procs
    /\ UNCHANGED <<orders, verificationTokens, tokenTimers, issuedAt,
                   channels, createdChannels, deleteTimers, scheduled,
                   appended, room, sockets, now, products>>

\* await updateOrderStatus(orderId, 'pending_approval', { receiptUrl }); then
\* getProductById(order.productId) throws on a null order (caught: 500);
\* otherwise sendProofForVerification mints the token, then the redirect.
UploadWrite(p) ==
    /\ p.kind = "upload" /\ p.pc = "u_write"
    /\ orders' = updateOrderStatus(orders, p.orderId,
                                   "pending_approval", "url", 0)
    /\ IF getOrderById(orders, p.orderId, p.userId)
       THEN /\ MintToken(ProofPayload(SiteCtx(p.orderId, p.userId)))
            /\ \E n \in Notices : Answer(p, Noted(p, n), "redirect")
       ELSE /\ Reply(p, "error500")
            /\ UNCHANGED <<verificationTokens, tokenTimers, issuedAt>>
    /\ UNCHANGED <<channels, createdChannels, deleteTimers, scheduled,
                   appended, room, sockets, now, products>>

\* ------------------------------------------------ GET /verify/:verificationId
\* synchronous: verificationTokens.get(id), then one of three renders
VerifyGetResult(toks, t) ==
    IF t \notin DOMAIN toks THEN "invalid"
    ELSE IF toks[t].action = "deliver" THEN "mark-delivery"
    ELSE "verify-receipt"

\* the request that arrives now follows a POST of token t that threw
Retried(t) ==
    last.kind = "post" /\ last.tok = t /\ last.result = "unanswered"

\* what is known of a request for token t when it arrives
Arrival(pr, t) ==
    [pr EXCEPT !.tok = t,
               !.late = t \in answered,
               !.retry = Retried(t),
               !.stale = now >= ExpiresAt(t)]

\* a GET that takes the token out of the store
VerifyGetConsuming(t) ==
    /\ Book(Arrival(NewProc("get", "get"), t),
            VerifyGetResult(verificationTokens, t))
    /\ verificationTokens' = TokenDelete(verificationTokens, t)
    /\ UNCHANGED <<orders, tokenTimers, issuedAt,
                   channels, createdChannels, deleteTimers, scheduled,
                   appended, room, sockets, now, procs, products>>

VerifyGet(t) ==
    /\ Book(Arrival(NewProc("get", "get"), t),
            VerifyGetResult(verificationTokens, t))
    /\ UNCHANGED <<orders, verificationTokens, tokenTimers, issuedAt,
                   channels, createdChannels, deleteTimers, scheduled,
                   appended, room, sockets, now, procs, products>>

\* --------------------------------------- POST /verify/action/:verificationId
\* the action of the request body alone
FinalActionBody(payload, bodyAction) == bodyAction

\* finalAction = tokenData.action || action
FinalAction(payload, bodyAction) ==
    IF payload.action # "none" THEN payload.action ELSE bodyAction

\* the branch of processVerificationAction that the action and the context's
\* type select, named by its first effect
Dispatch(action, type) ==
    IF type = "site" /\ action = "approve" THEN "a_write1"
    ELSE IF type = "site" /\ action = "reject" THEN "r_write"
    ELSE IF type = "site" /\ action = "deliver" THEN "d_write"
    ELSE IF type = "ticket" /\ action = "approve" THEN "p_fetch"
    ELSE IF type = "ticket" /\ action = "reject" THEN "tr_notify"
    ELSE IF type = "ticket" /\ action = "deliver" THEN "td_notify"
    ELSE "unknown"

\* verificationTokens.get(id); absent: the 403 page.  Present: the handler
\* awaits processVerificationAction(finalAction, tokenData.context), whose
\* first await is client.guilds.fetch.
PostStart(t, a) ==
    LET arrival == Arrival(NewProc("post", "guild"), t)
    IN  /\ IF t \notin DOMAIN verificationTokens
           THEN /\ Book(arrival, "invalid")
                /\ UNCHANGED procs
           ELSE /\ FreeSlot
                /\ MayStartFor(FinalAction(verificationTokens[t], a),
                               verificationTokens[t].context.type)
                /\ Enter(
                      [arrival EXCEPT
                         !.action = FinalAction(verificationTokens[t], a),
                         !.pc = Dispatch(FinalAction(verificationTokens[t], a),
                                         verificationTokens[t].context.type),
                         !.orderId = verificationTokens[t].context.orderId,
                         !.userId = verificationTokens[t].context.userId,
                         !.chan = verificationTokens[t].context.channelId,
                         !.productId =
                             verificationTokens[t].context.productId])
        /\ UNCHANGED <<orders, verificationTokens, tokenTimers, issuedAt,
                       channels, createdChannels, deleteTimers, scheduled,
                       appended, room, sockets, now, products>>

\* after processVerificationAction returns: verificationTokens.delete(id),
\* then res.render('action-result', { actionResult: result })
PostFinishAs(p, pr, result) ==
    /\ verificationTokens' = TokenDelete(verificationTokens, p.tok)
    /\ Answer(p, pr, result)

PostFinish(p, result) == PostFinishAs(p, p, result)

\* const guild = await client.guilds.fetch(GUILD_ID) rejects
GuildThrow(p) ==
    /\ Throw(p)
    /\ UNCHANGED <<orders, issuedAt, channels, createdChannels, scheduled,
                   appended, room, sockets, now, products>>

\* an action that matches no branch: return { success: false, 'Ação
\* desconhecida.' }
PostUnknown(p) ==
    /\ p.kind = "post" /\ p.pc = "unknown"
    /\ \/ GuildThrow(p)
       \/ /\ PostFinish(p, "failure")
          /\ UNCHANGED <<orders, tokenTimers, issuedAt, channels,
                         createdChannels, deleteTimers, scheduled, appended,
                         room, sockets, now, products>>

\* ---- approve, site (index.js 227-249)
\* getOrderById; await updateOrderStatus(orderId, 'approved'); then
\* targetOrder.productName throws on a null order, and guild.channels.create
\* creates the chat channel or rejects
ApproveWrite1(p) ==
    /\ p.kind = "post" /\ p.pc = "a_write1"
    /\ \/ GuildThrow(p)
       \/ /\ orders' = updateOrderStatus(orders, p.orderId,
                                         "approved", "", 0)
          /\ \/ /\ getOrderById(orders, p.orderId, p.userId)
                /\ createdChannels' =
                       Append(createdChannels,
                              ChatChannel(p.orderId, p.userId))
                /\ channels' = channels \cup {Len(createdChannels) + 1}
                /\ Continue(p, [p EXCEPT
                                  !.pc = "a_write2",
                                  !.chan = Len(createdChannels) + 1])
                /\ UNCHANGED <<verificationTokens, tokenTimers, deleteTimers>>
             \/ /\ Throw(p)
                /\ UNCHANGED <<channels, createdChannels>>
          /\ UNCHANGED <<issuedAt, scheduled, appended, room, sockets, now, products>>

\* await updateOrderStatus(orderId, 'approved', { ticketChannelId }), then
\* sendDeliveryNotification({ context: { type: 'site', ... } }) mints the
\* delivery token
ApproveWrite2(p) ==
    /\ p.kind = "post" /\ p.pc = "a_write2"
    /\ orders' = updateOrderStatus(orders, p.orderId, "approved", "",
                                   p.chan)
    /\ MintToken(DeliveryPayload(SiteCtx(p.orderId, p.userId)))
    /\ Step(p, "a_greet")
    /\ UNCHANGED <<channels, createdChannels, deleteTimers, scheduled,
                   appended, room, sockets, now, products>>

\* the owner's direct message with the delivery link was sent or failed
\* (caught in sendDeliveryNotification); await ticketChannel.send(...)
\* rejects (always, once the channel is gone), or resolves and the success
\* result is returned
ApproveGreet(p) ==
    /\ p.kind = "post" /\ p.pc = "a_greet"
    /\ \/ /\ p.chan \in channels
          /\ \E n \in Notices : PostFinishAs(p, Noted(p, n), "success")
          /\ UNCHANGED <<tokenTimers, deleteTimers>>
       \/ ThrowAs(p, Noted(p, "failed"))
    /\ UNCHANGED <<orders, issuedAt, channels, createdChannels, scheduled,
                   appended, room, sockets, now, products>>

\* ---- reject, site (index.js 258-261)
\* await updateOrderStatus(orderId, 'declined'); await logAuditEvent(...);
\* the success result is returned
RejectWrite(p) ==
    /\ p.kind = "post" /\ p.pc = "r_write"
    /\ \/ GuildThrow(p)
       \/ /\ orders' = updateOrderStatus(orders, p.orderId,
                                         "declined", "", 0)
          /\ PostFinish(p, "success")
          /\ UNCHANGED <<tokenTimers, issuedAt, channels, createdChannels,
                         deleteTimers, scheduled, appended, room, sockets, now,
                         products>>

\* ---- deliver, site (index.js 274-292)
\* systemMessage = { author: 'system', content, timestamp: new Date() }
SystemMessage(t) == [author |-> "system", content |-> 0, timestamp |-> t]

\* const targetOrder = await getOrderById(orderId, userId): a null order
\* returns the not-found failure.  await updateOrderStatus(orderId,
\* 'entregue'); then the system message is built and its append is sent.
DeliverWrite(p) ==
    /\ p.kind = "post" /\ p.pc = "d_write"
    /\ \/ GuildThrow(p)
       \/ /\ ~getOrderById(orders, p.orderId, p.userId)
          /\ PostFinish(p, "failure")
          /\ UNCHANGED <<orders, tokenTimers, issuedAt, channels,
                         createdChannels, deleteTimers, scheduled, appended,
                         room, sockets, now, products>>
       \/ /\ getOrderById(orders, p.orderId, p.userId)
          /\ orders' = updateOrderStatus(orders, p.orderId,
                                         "entregue", "", 0)
          /\ Continue(p, [p EXCEPT
                 !.pc = "d_append",
                 !.chan = orders[p.orderId].ticketChannelId,
                 !.msg = SystemMessage(now)])
          /\ UNCHANGED <<verificationTokens, tokenTimers, issuedAt, channels,
                         createdChannels, deleteTimers, scheduled, appended,
                         room, sockets, now, products>>

\* the database executes the append that handler p sent
AppendExec(p, pc) ==
    /\ orders' = addMessageToOrder(orders, p.orderId, p.msg)
    /\ appended' = [appended EXCEPT ![p.orderId] =
                                        Append(@, p.msg)]
    /\ Step(p, pc)
    /\ UNCHANGED <<verificationTokens, tokenTimers, issuedAt, channels,
                   createdChannels, deleteTimers, scheduled, room, sockets, now,
                   products>>

DeliverAppend(p) ==
    /\ p.kind = "post" /\ p.pc = "d_append"
    /\ AppendExec(p, "d_finish")

\* the user is fetched and messaged (both caught), then the emit;
\* guild.channels.fetch(targetOrder.ticketChannelId).catch(() => null); a
\* fetched channel gets setTimeout(() => ticketChannel.delete(), 10000).
\* With a null id the fetch returns the collection of all channels, whose
\* delete(key) removes nothing.
DeliverFinish(p) ==
    /\ p.kind = "post" /\ p.pc = "d_finish"
    /\ room' = Emit(room, p.orderId, p.msg)
    /\ sockets' = Broadcast(sockets, p.orderId, p.msg, 0)
    /\ IF p.chan \in channels
       THEN /\ scheduled' = scheduled (+) SetToBag({p.chan})
            /\ deleteTimers' = deleteTimers (+) SetToBag({p.chan})
       ELSE UNCHANGED <<scheduled, deleteTimers>>
    /\ \E n \in Notices : PostFinishAs(p, Noted(p, n), "success")
    /\ UNCHANGED <<orders, tokenTimers, issuedAt, channels, createdChannels,
                   appended, now, products>>

\* the callback of setTimeout(() => ticketChannel.delete(...), 10000): the
\* channel is deleted; once the channel is gone the delete rejects and
\* nothing catches it
ChannelDeleteFire ==
    \E c \in BagToSet(deleteTimers) :
        /\ \/ /\ c \in channels
              /\ channels' = channels \ {c}
              /\ deleteTimers' = deleteTimers (-) SetToBag({c})
              /\ UNCHANGED <<verificationTokens, tokenTimers, procs>>
           \/ /\ c \notin channels
              /\ deleteTimers' = deleteTimers (-) SetToBag({c})
              /\ UNCHANGED <<channels, verificationTokens, tokenTimers, procs>>
           \/ /\ c \notin channels
              /\ ProcessExit
              /\ UNCHANGED channels
        /\ UNCHANGED <<orders, issuedAt, createdChannels, scheduled, appended,
                       room, sockets, now, products>>
        /\ Quiet

\* ------------------------------------------------------------ chat bridge
\* the chat messages whose append ran or is on its way
ChatsDone ==
    UNION {{<<o, i>> : i \in {j \in DOMAIN appended[o] :
                                appended[o][j].author # "system"}} :
           o \in OrderIds}
Chatting == {q \in Handlers : q.pc \in {"w_append", "m_append"}}
ChatCount == Cardinality(ChatsDone) + Running(Chatting)
MayChat == ChatCount < MaxMessages

\* the texts of the chat messages that were appended or are in a handler
ChatContents ==
    UNION {{appended[o][i].content : i \in {j \in DOMAIN appended[o] :
                                    appended[o][j].author # "system"}} :
           o \in OrderIds}
    \cup {q.msg.content : q \in {r \in Handlers :
                                    r.kind \in {"web", "platform"}}}

\* the text of the next chat message: each message of a behaviour has its own
NextContent ==
    LET S == ChatContents \cup {0}
    IN  1 + CHOOSE m \in S : \A x \in S : x <= m

ChatMessage(author, content, t) ==
    [author |-> author, content |-> content, timestamp |-> t]

\* socket.on('chat_message_from_client'): const order = await
\* getOrderById(orderId, userId); newMessage = { author: 'user', content,
\* timestamp: new Date() }; the append is sent to the database
WebStart(o, u) ==
    /\ FreeSlot /\ MayChat
    /\ Enter([NewProc("web", "w_append") EXCEPT
                !.orderId = o, !.userId = u,
                !.chan = IF getOrderById(orders, o, u)
                         THEN orders[o].ticketChannelId ELSE 0,
                !.msg = ChatMessage("user", NextContent, now)])
    /\ UNCHANGED <<orders, verificationTokens, tokenTimers, issuedAt,
                   channels, createdChannels, deleteTimers, scheduled,
                   appended, room, sockets, now, products>>

\* await addMessageToOrder(orderId, newMessage)
WebAppend(p) ==
    /\ p.kind = "web" /\ p.pc = "w_append"
    /\ AppendExec(p, "w_emit")

\* a handler that answers no request ends
Done(p) ==
    /\ procs' = procs (-) SetToBag({p})
    /\ Quiet

\* a rejected fetch or send that nothing catches
ForwardUncaught(p) == Throw(p)

\* catch (error) { console.error(...) }: the fetch of the ticket channel or
\* the send into it rejected; the handler ends
ForwardCaught(p) ==
    /\ procs' = procs (-) SetToBag({p})
    /\ Book(p, "forward_failed")
    /\ UNCHANGED <<verificationTokens, tokenTimers, deleteTimers>>

\* ticketChannel.send(`**[SITE] ${username}:** ${message}`): the bot's post
\* in channel p.chan comes back to the bot as a MessageCreate event, its
\* author the bot itself
ForwardSent(p) ==
    /\ Continue(p, [NewProc("platform", "m_event") EXCEPT
                       !.orderId = createdChannels[p.chan].orderId,
                       !.chan = p.chan,
                       !.msg = [p.msg EXCEPT !.author = "bot"]])
    /\ UNCHANGED <<verificationTokens, tokenTimers, deleteTimers>>

\* socket.to(orderId).emit(...); order.ticketChannelId throws on a null
\* order, outside any try; an order without channel is not forwarded; the
\* forward to the ticket channel is inside try/catch, and it fails when the
\* channel is gone or the platform does not answer
WebEmit(p) ==
    /\ p.kind = "web" /\ p.pc = "w_emit"
    /\ room' = Emit(room, p.orderId, p.msg)
    /\ sockets' = Broadcast(sockets, p.orderId, p.msg, p.userId)
    /\ IF ~getOrderById(orders, p.orderId, p.userId) THEN Throw(p)
       ELSE IF p.chan = 0
       THEN /\ procs' = procs (-) SetToBag({p})
            /\ Book(p, "no_channel")
            /\ UNCHANGED <<verificationTokens, tokenTimers, deleteTimers>>
       ELSE \/ p.chan \in channels /\ ForwardSent(p)
            \/ ForwardCaught(p)
    /\ UNCHANGED <<orders, issuedAt, channels, createdChannels, scheduled,
                   appended, now, products>>

\* client.on(Events.MessageCreate): a person writes in channel c, whose
\* topic starts with 'Chat do Pedido do Site'; the order id is read from the
\* topic; newMessage = { author: 'staff', content, timestamp: new Date() };
\* the append is sent to the database
MessageCreate(c) ==
    /\ c \in channels
    /\ createdChannels[c].kind = "sitechat"
    /\ FreeSlot /\ MayChat
    /\ Enter([NewProc("platform", "m_append") EXCEPT
                !.orderId = createdChannels[c].orderId, !.chan = c,
                !.msg = ChatMessage("staff", NextContent, now)])
    /\ UNCHANGED <<orders, verificationTokens, tokenTimers, issuedAt,
                   channels, createdChannels, deleteTimers, scheduled,
                   appended, room, sockets, now, products>>

\* a MessageCreate event whose author passes for nobody
IgnoredNone(author) == FALSE

\* if (message.author.bot) return;
Ignored(author) == author = "bot"

\* client.on(Events.MessageCreate) for the bot's own post in a site-chat
\* channel: the first line returns; a message that gets past it is stamped
\* as a staff message and its append is sent
MessageFromBot(p) ==
    /\ p.kind = "platform" /\ p.pc = "m_event"
    /\ IF Ignored(p.msg.author)
       THEN /\ procs' = procs (-) SetToBag({p})
            /\ Book(p, "ignored")
       ELSE Continue(p, [p EXCEPT !.pc = "m_append",
                                  !.msg = ChatMessage("staff",
                                                      p.msg.content, now)])
    /\ UNCHANGED <<orders, verificationTokens, tokenTimers, issuedAt,
                   channels, createdChannels, deleteTimers, scheduled,
                   appended, room, sockets, now, products>>

\* await addMessageToOrder(orderId, newMessage)
MessageAppend(p) ==
    /\ p.kind = "platform" /\ p.pc = "m_append"
    /\ AppendExec(p, "m_emit")

\* io.to(orderId).emit('new_message_from_server', newMessage)
MessageEmit(p) ==
    /\ p.kind = "platform" /\ p.pc = "m_emit"
    /\ room' = Emit(room, p.orderId, p.msg)
    /\ sockets' = Broadcast(sockets, p.orderId, p.msg, 0)
    /\ Done(p)
    /\ UNCHANGED <<orders, verificationTokens, tokenTimers, issuedAt,
                   channels, createdChannels, deleteTimers, scheduled,
                   appended, now, products>>

\* socket.on('join_order_room', orderId): socket.join(orderId)
JoinRoom(u, o) ==
    /\ o \notin sockets[u].rooms
    /\ sockets' = [sockets EXCEPT ![u].rooms = @ \cup {o}]
    /\ Quiet
    /\ UNCHANGED <<orders, verificationTokens, tokenTimers, issuedAt,
                   channels, createdChannels, deleteTimers, scheduled,
                   appended, room, now, procs, products>>

\* -------------------------------------------------- GET /order/chat/:orderId
\* the chat page: 403 unless the order is the user's and approved or
\* entregue; else the page is rendered with messages: order.messages || []
ChatOpen(o, u) ==
    /\ Book([NewProc("chat", "chat") EXCEPT !.orderId = o, !.userId = u],
            IF getOrderById(orders, o, u)
               /\ orders[o].status \in {"approved", "entregue"}
            THEN "rendered" ELSE "denied")
    /\ UNCHANGED <<orders, verificationTokens, tokenTimers, issuedAt,
                   channels, createdChannels, deleteTimers, scheduled,
                   appended, room, sockets, now, procs, products>>

\* ---------------------------------------------- GET /order/create/:productId
\* a logged-in user asks for an order of a product.  const productData =
\* await getProductById(productId); a missing product is answered 404.
\* Building newOrder then reads product.id, and no `product` is declared
\* in the route or in the module: the ReferenceError goes to the catch,
\* which answers 500; createOrder is not reached.
OrderCreate(u, productId) ==
    /\ Book([NewProc("create", "create") EXCEPT
                !.userId = u, !.productId = productId],
            IF getProductById(products, productId) THEN "error500"
            ELSE "not_found")
    /\ UNCHANGED <<orders, verificationTokens, tokenTimers, issuedAt,
                   channels, createdChannels, deleteTimers, scheduled,
                   appended, room, sockets, now, procs, products>>

\* ------------------------------------------------ GET /order/status/:orderId
\* const order = await getOrderById(orderId, session user); the status of a
\* found order is answered, else 404 not_found
\* the status of the row with that id, whoever asks
StatusResultAny(ords, orderId, userId) ==
    IF orderId \in DOMAIN ords THEN ords[orderId].status ELSE "not_found"

StatusResult(ords, orderId, userId) ==
    IF getOrderById(ords, orderId, userId) THEN ords[orderId].status
    ELSE "not_found"

StatusGet(o, u) ==
    /\ Book([NewProc("status", "status") EXCEPT !.orderId = o, !.userId = u],
            StatusResult(orders, o, u))
    /\ UNCHANGED <<orders, verificationTokens, tokenTimers, issuedAt,
                   channels, createdChannels, deleteTimers, scheduled,
                   appended, room, sockets, now, procs, products>>

\* ------------------------------------------------------------------ tickets
\* the payment channels opened so far
Tickets == {c \in DOMAIN createdChannels : createdChannels[c].kind = "payment"}
MayOpen == Cardinality(Tickets) < MaxTickets

\* a frame of the ticket steps that touch neither the orders nor the chat
TicketFrame ==
    UNCHANGED <<orders, deleteTimers, scheduled, appended, room, sockets, now>>

\* select-product menu: a missing product and a product out of stock are
\* refused; else guild.channels.create makes the payment channel, inside
\* try/catch
SelectProduct(u, productId) ==
    /\ getProductById(products, productId)
    /\ IF products[productId] # -1 /\ products[productId] <= 0
       THEN /\ Book([NewProc("select", "select") EXCEPT
                        !.userId = u, !.productId = productId],
                    "out_of_stock")
            /\ UNCHANGED <<channels, createdChannels>>
       ELSE \/ /\ MayOpen
               /\ createdChannels' =
                      Append(createdChannels,
                             PaymentChannel(u, productId, "ok"))
               /\ channels' = channels \cup {Len(createdChannels) + 1}
               /\ Book([NewProc("select", "select") EXCEPT
                           !.userId = u, !.productId = productId,
                           !.chan = Len(createdChannels) + 1], "opened")
            \/ /\ Book([NewProc("select", "select") EXCEPT
                           !.userId = u, !.productId = productId], "error")
               /\ UNCHANGED <<channels, createdChannels>>
    /\ UNCHANGED <<products, verificationTokens, tokenTimers, issuedAt,
                   procs>>
    /\ TicketFrame

\* a user taken from the channel whatever its topic says
UserOfTopicGuessed(ch) == ch.userId

\* the user match of paymentChannel.topic.match(/User: (\d+)/): 0 is null
UserOfTopic(ch) == IF ch.topic = "ok" THEN ch.userId ELSE 0

\* MessageCreate in a `pagamento-` channel with an attachment: a channel
\* without topic or without the User and ProductID fields is left alone;
\* else sendProofForVerification mints a proof token for the ticket
ProofMessage(c) ==
    /\ c \in channels
    /\ createdChannels[c].kind = "payment"
    /\ createdChannels[c].topic = "ok"
    /\ MayUpload
    /\ MintToken(ProofPayload(TicketCtx(c, UserOfTopic(createdChannels[c]),
                                        createdChannels[c].productId)))
    /\ Quiet
    /\ UNCHANGED <<products, channels, createdChannels, procs>>
    /\ TicketFrame

\* the confirm-payment button of payment channel c, pressed by an
\* administrator: processPaymentConfirmation(guild, channel.id, id, user)
\* with the product id of the button's customId
ConfirmStart(c) ==
    /\ c \in channels
    /\ createdChannels[c].kind = "payment"
    /\ FreeSlot
    /\ Enter([NewProc("button", "p_fetch") EXCEPT
                !.chan = c, !.productId = createdChannels[c].productId])
    /\ UNCHANGED <<products, verificationTokens, tokenTimers, issuedAt,
                   channels, createdChannels>>
    /\ TicketFrame

\* processPaymentConfirmation returns `result`: the POST deletes its token
\* and renders the result, the button handler ends
PayReturn(p, result) ==
    IF p.kind = "post"
    THEN PostFinish(p, result)
    ELSE /\ procs' = procs (-) SetToBag({p})
         /\ Book(p, result)
         /\ UNCHANGED verificationTokens

\* a confirmation that goes on without its payment channel
PayFetchUnchecked(p) ==
    /\ p.pc = "p_fetch"
    /\ Continue(p, [p EXCEPT
           !.userId = createdChannels[p.chan].userId,
           !.pc = IF getProductById(products, p.productId)
                     /\ products[p.productId] # -1
                  THEN "p_stock" ELSE "p_delete"])
    /\ UNCHANGED <<verificationTokens, tokenTimers, deleteTimers>>
    /\ UNCHANGED <<orders, products, issuedAt, channels, createdChannels,
                   scheduled, appended, room, sockets, now>>

\* guild.channels.fetch(channelId).catch(() => null): a missing channel or
\* one without topic, and a topic without the user field, return the
\* failure result.  Else client.users.fetch(userId) (it may reject) and
\* getProductById: an existing product of limited stock is decremented.
\* For a POST, client.guilds.fetch and client.users.fetch(OWNER_ID) come
\* first and may reject.
PayFetch(p) ==
    /\ p.pc = "p_fetch"
    /\ \/ /\ Throw(p)
       \/ /\ \/ p.chan \notin channels
             \/ createdChannels[p.chan].topic = "none"
             \/ UserOfTopic(createdChannels[p.chan]) = 0
          /\ PayReturn(p, "failure")
          /\ UNCHANGED <<tokenTimers, deleteTimers>>
       \/ /\ p.chan \in channels
          /\ createdChannels[p.chan].topic # "none"
          /\ UserOfTopic(createdChannels[p.chan]) # 0
          /\ Continue(p, [p EXCEPT
                 !.userId = UserOfTopic(createdChannels[p.chan]),
                 !.pc = IF getProductById(products, p.productId)
                           /\ products[p.productId] # -1
                        THEN "p_stock" ELSE "p_delete"])
          /\ UNCHANGED <<verificationTokens, tokenTimers, deleteTimers>>
    /\ UNCHANGED <<orders, products, issuedAt, channels, createdChannels,
                   scheduled, appended, room, sockets, now>>

\* await decreaseProductStock(productId)
PayStock(p) ==
    /\ p.pc = "p_stock"
    /\ products' = decreaseProductStock(products, p.productId)
    /\ Step(p, "p_delete")
    /\ UNCHANGED <<verificationTokens, tokenTimers, issuedAt, channels,
                   createdChannels>>
    /\ TicketFrame

\* a confirmation that leaves the payment channel in place
PayDeleteSkipped(p) ==
    /\ p.pc = "p_delete"
    /\ Step(p, "p_create")
    /\ UNCHANGED <<verificationTokens, tokenTimers, deleteTimers, channels>>
    /\ UNCHANGED <<orders, products, issuedAt, createdChannels, scheduled,
                   appended, room, sockets, now>>

\* await paymentChannel.delete(...): rejects once the channel is gone
PayDelete(p) ==
    /\ p.pc = "p_delete"
    /\ IF p.chan \in channels
       THEN /\ channels' = channels \ {p.chan}
            /\ Step(p, "p_create")
            /\ UNCHANGED <<verificationTokens, tokenTimers, deleteTimers>>
       ELSE /\ Throw(p)
            /\ UNCHANGED channels
    /\ UNCHANGED <<orders, products, issuedAt, createdChannels, scheduled,
                   appended, room, sockets, now>>

\* guild.channels.create makes the delivery channel, or rejects
PayCreate(p) ==
    /\ p.pc = "p_create"
    /\ \/ /\ createdChannels' =
                 Append(createdChannels,
                        DeliveryChannel(p.userId, p.productId))
          /\ channels' = channels \cup {Len(createdChannels) + 1}
          /\ Continue(p, [p EXCEPT !.pc = "p_notify",
                                   !.made = Len(createdChannels) + 1])
          /\ UNCHANGED <<verificationTokens, tokenTimers, deleteTimers>>
       \/ /\ Throw(p)
          /\ UNCHANGED <<channels, createdChannels>>
    /\ UNCHANGED <<orders, products, issuedAt, scheduled, appended, room, sockets,
                   now>>

\* await deliveryChannel.send(...) greets the channel, or rejects; then
\* sendDeliveryNotification mints the delivery token of the ticket, its
\* context carrying deliveryChannel.id
PayNotify(p) ==
    /\ p.pc = "p_notify"
    /\ \/ /\ MintToken(DeliveryPayload(
                 TicketCtx(p.made, p.userId, p.productId)))
          /\ Step(p, "p_return")
          /\ UNCHANGED deleteTimers
       \/ /\ Throw(p)
          /\ UNCHANGED issuedAt
    /\ UNCHANGED <<orders, products, channels, createdChannels, scheduled,
                   appended, room, sockets, now>>

\* return { success: true, ... }
PayFinish(p) ==
    /\ p.pc = "p_return"
    /\ PayReturn(p, "success")
    /\ UNCHANGED <<products, tokenTimers, issuedAt, channels,
                   createdChannels>>
    /\ TicketFrame

\* ---- reject, ticket (index.js 251-257)
\* guild.channels.fetch(channelId).catch(() => null); an existing channel is
\* told of the refusal (the send may reject); the success result is returned
TicketReject(p) ==
    /\ p.kind = "post" /\ p.pc = "tr_notify"
    /\ \/ Throw(p)
       \/ /\ PostFinishAs(p, Noted(p, IF p.chan \in channels
                                      THEN "sent" ELSE "none"), "success")
          /\ UNCHANGED <<tokenTimers, deleteTimers>>
    /\ UNCHANGED <<orders, products, issuedAt, channels, createdChannels,
                   scheduled, appended, room, sockets, now>>

\* ---- deliver, ticket (index.js 264-273)
\* guild.channels.fetch(channelId).catch(() => null); an existing channel is
\* told of the delivery (the send may reject) and gets
\* setTimeout(() => deliveryChannel.delete(...), 10000); then
\* client.users.fetch(userId) is awaited
TicketDeliver(p) ==
    /\ p.kind = "post" /\ p.pc = "td_notify"
    /\ \/ /\ Throw(p)
          /\ UNCHANGED scheduled
       \/ /\ p.chan \in channels
          /\ scheduled' = scheduled (+) SetToBag({p.chan})
          /\ deleteTimers' = deleteTimers (+) SetToBag({p.chan})
          /\ Step(p, "td_user")
          /\ UNCHANGED <<verificationTokens, tokenTimers>>
       \/ /\ p.chan \notin channels
          /\ Step(p, "td_user")
          /\ UNCHANGED <<verificationTokens, tokenTimers, deleteTimers,
                         scheduled>>
    /\ UNCHANGED <<orders, products, issuedAt, channels, createdChannels,
                   appended, room, sockets, now>>

\* client.users.fetch(userId) rejects, or the user is messaged (caught) and
\* the success result is returned
TicketDeliverFinish(p) ==
    /\ p.kind = "post" /\ p.pc = "td_user"
    /\ \/ Throw(p)
       \/ /\ \E n \in Notices : PostFinishAs(p, Noted(p, n), "success")
          /\ UNCHANGED <<tokenTimers, deleteTimers>>
    /\ UNCHANGED <<orders, products, issuedAt, channels, createdChannels,
                   scheduled, appended, room, sockets, now>>

\* ------------------------------------------------------------ specifications
\* the site order flow within the first hour of its tokens
Next ==
    \/ ChannelDeleteFire
    \/ \E o \in OrderIds : UploadStart(o, Owner(o))
    \/ \E p \in Handlers : UploadWrite(p)
    \/ \E t \in 1..Len(issuedAt) : VerifyGet(t)
    \/ \E t \in 1..Len(issuedAt), a \in BodyActions : PostStart(t, a)
    \/ \E p \in Handlers : PostUnknown(p)
    \/ \E p \in Handlers : ApproveWrite1(p)
    \/ \E p \in Handlers : ApproveWrite2(p)
    \/ \E p \in Handlers : ApproveGreet(p)
    \/ \E p \in Handlers : RejectWrite(p)
    \/ \E p \in Handlers : DeliverWrite(p)
    \/ \E p \in Handlers : DeliverAppend(p)
    \/ \E p \in Handlers : DeliverFinish(p)

Spec == Init /\ [][Next]_vars

\* a proof token across its hour: the clock, the eviction timer, and the
\* review of the receipt
NextExpiry ==
    \/ Tick
    \/ TokenTimerFire
    \/ \E o \in OrderIds : UploadStart(o, Owner(o))
    \/ \E p \in Handlers : UploadWrite(p)
    \/ \E t \in 1..Len(issuedAt) : VerifyGet(t)
    \/ \E t \in 1..Len(issuedAt) : PostStart(t, "reject")
    \/ \E p \in Handlers : RejectWrite(p)

SpecExpiry == Init /\ [][NextExpiry]_vars

\* every token of the site flow through its hour and past it: the clock
\* runs one TTL beyond the last moment at which a token is issued, and a
\* due timer of a live process fires
NextEvict ==
    \/ TickTo(MaxClock + TTL)
    \/ TokenTimerFire
    \/ \E o \in OrderIds : now < MaxClock /\ UploadStart(o, Owner(o))
    \/ \E p \in Handlers : now <= MaxClock /\ UploadWrite(p)
    \/ \E t \in 1..Len(issuedAt), a \in {"approve", "reject"} :
          now < MaxClock /\ PostStart(t, a)
    \/ \E p \in Handlers : ApproveWrite1(p)
    \/ \E p \in Handlers : now <= MaxClock /\ ApproveWrite2(p)
    \/ \E p \in Handlers : ApproveGreet(p)
    \/ \E p \in Handlers : RejectWrite(p)

SpecEvict ==
    /\ Init /\ [][NextEvict]_vars
    /\ WF_vars(TickTo(MaxClock + TTL))
    /\ WF_vars(TokenTimerFire)

\* the tokens one behaviour can issue: a proof token per upload, a delivery
\* token per created channel
MaxTokens == MaxUploads + MaxChannels

\* a payment channel of user 1 for product 1 is open, with the topic the
\* guild holds for it; the product has any stock
InitTicket ==
    \E topic \in Topics :
        StartWith({OrderRow(Owner(1), Jsonb(<<>>))},
                  <<PaymentChannel(1, 1, topic)>>, {-1, 0, 1, 2})

\* the ticket flow: product selection, the receipt posted in the payment
\* channel, and the confirmation of the payment by the button and by the
\* approve link
NextTicket ==
    \/ \E u \in Users, i \in ProductIds : SelectProduct(u, i)
    \/ \E c \in channels : ProofMessage(c)
    \/ \E c \in channels : ConfirmStart(c)
    \/ \E t \in 1..Len(issuedAt) :
          issuedAt[t].action = "none" /\ PostStart(t, "approve")
    \/ \E p \in Handlers : PayFetch(p)
    \/ \E p \in Handlers : PayStock(p)
    \/ \E p \in Handlers : PayDelete(p)
    \/ \E p \in Handlers : PayCreate(p)
    \/ \E p \in Handlers : PayNotify(p)
    \/ \E p \in Handlers : PayFinish(p)

SpecTicket == InitTicket /\ [][NextTicket]_vars

\* one ticket from its payment channel to the deletion of its delivery
\* channel: the receipt, the confirmation by the button and by the approve
\* link, the refusal, the delivery link, and the deletion timers
Delivering == {q \in Handlers : q.pc = "td_notify"}
MayDeliver == BagCardinality(scheduled) + Running(Delivering) < MaxTimers

InitLife == StartWith({OrderRow(Owner(1), Jsonb(<<>>))},
                      <<PaymentChannel(1, 1, "ok")>>, {-1, 1})

NextLife ==
    \/ ChannelDeleteFire
    \/ \E c \in channels : ProofMessage(c)
    \/ \E c \in channels : ConfirmStart(c)
    \/ \E t \in 1..Len(issuedAt), a \in {"approve", "reject", "deliver"} :
          /\ ( /\ t \in DOMAIN verificationTokens
               /\ FinalAction(verificationTokens[t], a) = "deliver" )
             => MayDeliver
          /\ PostStart(t, a)
    \/ \E p \in Handlers : PayFetch(p)
    \/ \E p \in Handlers : PayStock(p)
    \/ \E p \in Handlers : PayDelete(p)
    \/ \E p \in Handlers : PayCreate(p)
    \/ \E p \in Handlers : PayNotify(p)
    \/ \E p \in Handlers : PayFinish(p)
    \/ \E p \in Handlers : TicketReject(p)
    \/ \E p \in Handlers : TicketDeliver(p)
    \/ \E p \in Handlers : TicketDeliverFinish(p)

SpecLife == InitLife /\ [][NextLife]_vars

\* every way in which a channel is created: the payment channel of a
\* selected product, the delivery channel of a confirmed payment, the chat
\* channel of an approved site order
NextChannels ==
    \/ \E u \in Users, i \in ProductIds : SelectProduct(u, i)
    \/ \E c \in channels : ConfirmStart(c)
    \/ \E p \in Handlers : PayFetch(p)
    \/ \E p \in Handlers : PayStock(p)
    \/ \E p \in Handlers : PayDelete(p)
    \/ \E p \in Handlers : PayCreate(p)
    \/ \E p \in Handlers : PayNotify(p)
    \/ \E p \in Handlers : PayFinish(p)
    \/ \E o \in OrderIds : UploadStart(o, Owner(o))
    \/ \E p \in Handlers : UploadWrite(p)
    \/ \E t \in 1..Len(issuedAt) :
          issuedAt[t].action = "none" /\ PostStart(t, "approve")
    \/ \E p \in Handlers : ApproveWrite1(p)
    \/ \E p \in Handlers : ApproveWrite2(p)
    \/ \E p \in Handlers : ApproveGreet(p)

SpecChannels == Init /\ [][NextChannels]_vars

\* the requests of the shop's users, the owner of the order and another
\* logged-in user: receipt upload, web chat message, status poll, order
\* creation
NextAuth ==
    \/ \E o \in OrderIds, u \in Users : UploadStart(o, u)
    \/ \E p \in Handlers : UploadWrite(p)
    \/ \E o \in OrderIds, u \in Users : WebStart(o, u)
    \/ \E p \in Handlers : WebAppend(p)
    \/ \E p \in Handlers : WebEmit(p)
    \/ \E o \in OrderIds, u \in Users : StatusGet(o, u)
    \/ \E u \in Users, i \in RequestedProducts : OrderCreate(u, i)

SpecAuth == Init /\ [][NextAuth]_vars

\* the buttons of the page that GET /verify/:verificationId renders for
\* token t: approve and reject on the review form, deliver on the delivery
\* form
FormActions(t) ==
    IF issuedAt[t].action = "deliver" THEN {"deliver"}
    ELSE {"approve", "reject"}

\* the site flow of one order with one request at a time: the owner uploads
\* the receipt, the operator answers each link from its form
NextFlow ==
    \/ ChannelDeleteFire
    \/ \E o \in OrderIds : procs = EmptyBag /\ UploadStart(o, Owner(o))
    \/ \E p \in Handlers : UploadWrite(p)
    \/ \E t \in 1..Len(issuedAt) : VerifyGet(t)
    \/ \E t \in 1..Len(issuedAt), a \in BodyActions :
          procs = EmptyBag /\ a \in FormActions(t) /\ PostStart(t, a)
    \/ \E p \in Handlers : ApproveWrite1(p)
    \/ \E p \in Handlers : ApproveWrite2(p)
    \/ \E p \in Handlers : ApproveGreet(p)
    \/ \E p \in Handlers : RejectWrite(p)
    \/ \E p \in Handlers : DeliverWrite(p)
    \/ \E p \in Handlers : DeliverAppend(p)
    \/ \E p \in Handlers : DeliverFinish(p)

SpecFlow == Init /\ [][NextFlow]_vars

\* an approved order of the migrated data with its chat channel, its
\* messages column as the migration stored it
ApprovedRows ==
    {[OrderRow(Owner(1), m) EXCEPT !.status = "approved",
                                   !.receiptUrl = "url",
                                   !.ticketChannelId = 1] :
        m \in MigratedMessages}

InitChat == Start(ApprovedRows, <<ChatChannel(1, Owner(1))>>)

\* the chat of an approved order, up to its delivery
NextChat ==
    \/ Tick
    \/ ChannelDeleteFire
    \/ \E o \in OrderIds : WebStart(o, Owner(o))
    \/ \E p \in Handlers : WebAppend(p)
    \/ \E p \in Handlers : WebEmit(p)
    \/ \E c \in channels : MessageCreate(c)
    \/ \E p \in Handlers : MessageFromBot(p)
    \/ \E p \in Handlers : MessageAppend(p)
    \/ \E p \in Handlers : MessageEmit(p)
    \/ \E o \in OrderIds : UploadStart(o, Owner(o))
    \/ \E p \in Handlers : UploadWrite(p)
    \/ \E t \in 1..Len(issuedAt) : PostStart(t, "deliver")
    \/ \E p \in Handlers : DeliverWrite(p)
    \/ \E p \in Handlers : DeliverAppend(p)
    \/ \E p \in Handlers : DeliverFinish(p)

SpecChat == InitChat /\ [][NextChat]_vars

\* the chat of an order without channel and of an order with its channel:
\* web messages, staff messages and the chat page; every started handler
\* runs on
InitRelay == Init \/ InitChat

\* the chat of an approved order with the sockets of the owner and of
\* another logged-in user
NextRoom ==
    \/ \E u \in Users, o \in OrderIds : JoinRoom(u, o)
    \/ \E o \in OrderIds : WebStart(o, Owner(o))
    \/ \E p \in Handlers : WebAppend(p)
    \/ \E p \in Handlers : WebEmit(p)
    \/ \E c \in channels : MessageCreate(c)
    \/ \E p \in Handlers : MessageFromBot(p)
    \/ \E p \in Handlers : MessageAppend(p)
    \/ \E p \in Handlers : MessageEmit(p)

SpecRoom == InitChat /\ [][NextRoom]_vars

NextRelay ==
    \/ \E o \in OrderIds : WebStart(o, Owner(o))
    \/ \E p \in Handlers : WebAppend(p)
    \/ \E p \in Handlers : WebEmit(p)
    \/ \E c \in channels : MessageCreate(c)
    \/ \E p \in Handlers : MessageFromBot(p)
    \/ \E p \in Handlers : MessageAppend(p)
    \/ \E p \in Handlers : MessageEmit(p)
    \/ \E o \in OrderIds : ChatOpen(o, Owner(o))

SpecRelay ==
    /\ InitRelay /\ [][NextRelay]_vars
    /\ WF_vars(\E p \in Handlers : WebAppend(p))
    /\ WF_vars(\E p \in Handlers : WebEmit(p))
    /\ WF_vars(\E p \in Handlers : MessageFromBot(p))
    /\ WF_vars(\E p \in Handlers : MessageAppend(p))
    /\ WF_vars(\E p \in Handlers : MessageEmit(p))

\* ------------------------------------------------------------------ claims
\* C1: of two POSTs of one token that are in flight together, one is
\* answered with a success result and the other with the invalid-or-expired
\* page: a POST that was suspended when a POST of the same token was
\* answered with success is itself answered invalid.
C1_OneOfTwoSucceeds ==
    last.kind = "post" /\ last.raced => last.result = "invalid"

\* C2: once a POST of a token has been answered, the token is in the store
\* no more, every later GET or POST of it is answered with the invalid page,
\* and no later POST of it gets as far as a handler that acts.
C2_SingleUse ==
    /\ \A t \in answered : t \notin DOMAIN verificationTokens
    /\ \A p \in Handlers : ~p.late
    /\ last.late => last.result = "invalid"

\* a POST that came after the token's POST was answered got the invalid page
C2_LatePostRefused ==
    last.kind = "post" /\ last.late /\ last.result = "invalid"

\* C3: after the action of a POST threw, a retried POST of the same token is
\* answered with the invalid-or-expired page.
C3_RetryIsRefused ==
    last.kind = "post" /\ last.retry => last.result = "invalid"

\* C4: a GET or POST of a token that arrives when the token's hour has
\* elapsed is answered with the invalid page, whether or not the eviction
\* timer has fired.
C4_LazyExpiry ==
    last.stale => last.result = "invalid"

\* C5: every change of an order's stored status is one of the edges
\* analise -> pending_approval, pending_approval -> approved,
\* pending_approval -> declined, approved -> entregue.
C5_StatusEdges ==
    [][\A o \in OrderIds :
          orders'[o].status # orders[o].status =>
              <<orders[o].status, orders'[o].status>> \in
                  {<<"analise", "pending_approval">>,
                   <<"pending_approval", "approved">>,
                   <<"pending_approval", "declined">>,
                   <<"approved", "entregue">>}]_vars

\* C6: for every order at most one chat channel is ever created and at most
\* one channel deletion is ever scheduled.
C6_OneChannelPerOrder ==
    \A o \in OrderIds :
        LET Chans == {c \in DOMAIN createdChannels :
                         createdChannels[c].orderId = o}
        IN  /\ Cardinality(Chans) <= 1
            /\ BagCardinality([c \in Chans \cap BagToSet(scheduled) |->
                                  scheduled[c]]) <= 1

\* C7: when the action of a POST comes to act on an order whose status is not
\* the action's source state (pending_approval for approve and reject,
\* approved for deliver), that step leaves the order's row as it is and the
\* request is not answered with a success result.
C7_InvalidTransition ==
    [][\A p \in Handlers :
          ( /\ CopiesIn(p, procs') < CopiesIn(p, procs)
            /\ p.pc \in {"a_write1", "r_write", "d_write"}
            /\ orders[p.orderId].status #
                  (IF p.action = "deliver" THEN "approved"
                   ELSE "pending_approval") )
          => /\ orders'[p.orderId] = orders[p.orderId]
             /\ last'.result # "success"]_vars

\* C8: the stored transcript of every order holds every message whose append
\* the database has run, in the order the appends ran.
C8_NoMessageLost ==
    \A o \in OrderIds : Transcript(orders, o) = appended[o]

\* C9: two messages of one order are in the stored transcript in the order
\* in which they were broadcast to the order's room.
C9_TranscriptOrderIsBroadcastOrder ==
    \A o \in OrderIds :
        LET T == Transcript(orders, o)
            R == room[o]
            Once(seq, m) == Cardinality({i \in DOMAIN seq : seq[i] = m}) = 1
        IN  \A a, b \in DOMAIN T, c, d \in DOMAIN R :
                ( /\ a < b /\ T[a] = R[c] /\ T[b] = R[d]
                  /\ Once(T, T[a]) /\ Once(T, T[b])
                  /\ Once(R, T[a]) /\ Once(R, T[b]) )
                => c < d

\* C10: the timestamps of the messages of one order's stored transcript are
\* non-decreasing in transcript order.
C10_TimestampsNonDecreasing ==
    \A o \in OrderIds :
        LET T == Transcript(orders, o)
        IN  \A i, j \in DOMAIN T : i < j => T[i].timestamp <= T[j].timestamp

\* C11: a web chat message whose (orderId, userId) pair finds no order has
\* no side effect: no step of its handler changes the order's row or emits
\* to the order's room.
C11_ForeignChatHasNoEffect ==
    [][\A p \in Handlers :
          ( /\ p.kind = "web"
            /\ ~getOrderById(orders, p.orderId, p.userId)
            /\ CopiesIn(p, procs') < CopiesIn(p, procs) )
          => /\ orders' = orders
             /\ room' = room]_vars

\* C12: an upload for an order that the session user does not own leaves
\* the orders as they are and issues no token.
C12_ForeignUploadHasNoEffect ==
    [][( /\ last'.kind = "upload"
         /\ ~getOrderById(orders, last'.orderId, last'.userId) )
       => /\ orders' = orders
          /\ issuedAt' = issuedAt
          /\ verificationTokens' = verificationTokens]_vars

C15_ProofTokenNeverDelivers ==
    /\ \A p \in Handlers :
          (p.kind = "post" /\ issuedAt[p.tok].action = "none")
          => /\ p.action # "deliver"
             /\ p.pc \notin {"d_write", "d_append", "d_finish"}
    /\ ( /\ last.kind = "post" /\ last.result = "success"
         /\ issuedAt[last.tok].action = "none" )
       => last.action \in {"approve", "reject"}

\* C16: a token minted by delivery confirmation carries the action deliver:
\* a GET of it while it is in the store renders the delivery form (and the
\* delivery form is rendered for no other token), every POST of it runs the
\* deliver branch, and an answered POST of it applied deliver.
C16_DeliveryTokenDelivers ==
    /\ \A t \in DOMAIN verificationTokens :
          issuedAt[t].action = "deliver"
          => /\ verificationTokens[t].action = "deliver"
             /\ VerifyGetResult(verificationTokens, t) = "mark-delivery"
    /\ ( last.kind = "get" /\ last.result # "invalid" )
       => ( last.result = "mark-delivery"
              <=> issuedAt[last.tok].action = "deliver" )
    /\ \A p \in Handlers :
          (p.kind = "post" /\ issuedAt[p.tok].action = "deliver")
          => /\ p.action = "deliver"
             /\ p.pc \in {"d_write", "d_append", "d_finish"}
    /\ ( /\ last.kind = "post" /\ last.tok # 0
         /\ last.result \in {"success", "failure"}
         /\ issuedAt[last.tok].action = "deliver" )
       => last.action = "deliver"

\* a POST of a delivery token has just been answered with success and the
\* order is entregue
C16_DeliveryTokenPosted ==
    /\ last.kind = "post" /\ last.result = "success"
    /\ last.tok # 0 /\ issuedAt[last.tok].action = "deliver"
    /\ last.action = "deliver"
    /\ orders[last.orderId].status = "entregue"

C18_StatusReadIsPure ==
    [][last'.kind = "status"
       => /\ UNCHANGED <<orders, verificationTokens, tokenTimers, issuedAt,
                         channels, createdChannels, deleteTimers, scheduled,
                         appended, room, sockets, now, procs, answered, products>>
          /\ IF getOrderById(orders, last'.orderId, last'.userId)
             THEN last'.result = orders[last'.orderId].status
             ELSE last'.result = "not_found"]_vars

\* the owner has just polled and got pending_approval while another
\* handler is suspended
C18_OwnerPolledDuringRequest ==
    /\ last.kind = "status" /\ last.userId = Owner(last.orderId)
    /\ last.result = "pending_approval"
    /\ procs # EmptyBag

\* the system-authored messages of an order's stored transcript
SystemEntries(o) ==
    {i \in DOMAIN Transcript(orders, o) :
        Transcript(orders, o)[i].author = "system"}

\* the delivery tokens issued so far
DeliveryTokens == {t \in 1..Len(issuedAt) : issuedAt[t].action = "deliver"}

TargetStatus(kind, action) ==
    IF kind = "upload" THEN "pending_approval"
    ELSE IF action = "approve" THEN "approved"
    ELSE IF action = "reject" THEN "declined"
    ELSE "entregue"

\* C20: when the operator's direct message, the user's direct message or
\* the greeting in the new channel has failed in a site transition, the
\* order's stored status after the operation is the transition's target
\* status.
C20_NotificationFailureKeepsStatus ==
    last.notice = "failed"
    => orders[last.orderId].status = TargetStatus(last.kind, last.action)

\* the greeting in the new chat channel has just failed, the approve is
\* left unanswered, and the order is approved
C20_GreetingFailed ==
    /\ last.kind = "post" /\ last.action = "approve"
    /\ last.notice = "failed" /\ last.result = "unanswered"
    /\ orders[last.orderId].status = "approved"
    /\ orders[last.orderId].ticketChannelId # 0

\* C21: every POST of /verify/action/:tokenId is answered with a rendered
\* result page: the success or failure summary of the action, or the
\* invalid-link page; no POST is left unanswered.
C21_PostAlwaysRendersPage ==
    last.kind = "post" => last.result \in {"success", "failure", "invalid"}

\* C22: an order's stored ticketChannelId never names a channel that this
\* system created and that exists no more.
C22_NoStaleChannelId ==
    \A o \in DOMAIN orders :
        orders[o].ticketChannelId \in 1..Len(createdChannels)
        => orders[o].ticketChannelId \in channels

\* the POSTs that are running the approve branch
Approving(o) ==
    {p \in Handlers : p.kind = "post" /\ p.action = "approve"
                      /\ p.orderId = o}

\* C30: while no approve of an order is in flight, an order that is stored
\* as approved is bound to a chat channel created for that order.
C30_ApprovedHasChannel ==
    \A o \in DOMAIN orders :
        ( Approving(o) = {} /\ orders[o].status = "approved" )
        => /\ orders[o].ticketChannelId \in 1..Len(createdChannels)
           /\ createdChannels[orders[o].ticketChannelId].kind = "sitechat"
           /\ createdChannels[orders[o].ticketChannelId].orderId = o

\* C27: every token in the store has its eviction timer pending, and every
\* token that is in the store is later out of it, resolved or not, when the
\* clock advances and due timers fire.
C27_TokensSelfExpire ==
    /\ [](\A t \in DOMAIN verificationTokens :
             /\ t \in DOMAIN tokenTimers
             /\ tokenTimers[t] = ExpiresAt(t))
    /\ \A t \in 1..MaxTokens :
          (t \in DOMAIN verificationTokens)
              ~> (t \notin DOMAIN verificationTokens)

\* the timer of a token that no POST resolved has just fired and the token
\* is out of the store
C27_UnresolvedTokenEvicted ==
    /\ last.kind = "timer" /\ last.result = "evicted"
    /\ last.tok \notin answered
    /\ last.tok \notin DOMAIN verificationTokens
    /\ now >= ExpiresAt(last.tok)

\* C23: a stock of 0 stays 0, a stock of -1 stays -1, a positive stock goes
\* down by at most 1 in a step and by exactly 1 in the step of a
\* decreaseProductStock call, and no stock is ever below -1.
C23_GuardedDecrement ==
    [][\A i \in ProductIds :
          /\ products[i] = 0 => products'[i] = 0
          /\ products[i] = -1 => products'[i] = -1
          /\ products[i] > 0 => products'[i] \in {products[i], products[i] - 1}
          /\ products'[i] >= -1
          /\ \A p \in Handlers :
                ( /\ p.pc = "p_stock" /\ p.productId = i
                  /\ CopiesIn(p, procs') < CopiesIn(p, procs)
                  /\ last' = NoAnswer )
                => products'[i] = IF products[i] > 0 THEN products[i] - 1
                                  ELSE products[i]]_vars

\* a confirmation has run its decrement and the product's stock is 0
C23_DecrementedToZero ==
    /\ products[1] = 0
    /\ \E p \in Handlers : p.pc = "p_delete" /\ p.productId = 1

\* the confirmations of payment channel c that have run their decrement
Decremented(c) ==
    {q \in Handlers : q.chan = c /\ q.pc \in {"p_delete", "p_create",
                                              "p_notify", "p_return"}}

\* C24: the stock is decreased at most once for one payment channel: no
\* confirmation decreases the stock for a channel for which another
\* running confirmation has run its decrement.
C24_OneDecrementPerTicket ==
    [][\A p \in Handlers :
          ( /\ p.pc = "p_stock"
            /\ CopiesIn(p, procs') < CopiesIn(p, procs)
            /\ products'[p.productId] < products[p.productId] )
          => Decremented(p.chan) = {}]_vars

\* the topic of payment channel c cannot be used, or the channel is gone
Unusable(c) ==
    \/ c \notin channels
    \/ createdChannels[c].topic \in {"none", "nouser"}

\* C25: a payment confirmation whose channel is gone, has no topic, or has
\* a topic without the user field returns the failure result and changes
\* neither the stock nor the channels, and issues no token.  (The step is
\* the confirmation's own: it leaves the bag of handlers, not as the mark
\* that another POST of its token leaves on it, and not by a process exit.)
C25_ParsingFailsClosed ==
    [][\A p \in Handlers :
          ( /\ p.pc = "p_fetch" /\ Unusable(p.chan)
            /\ CopiesIn(p, procs') < CopiesIn(p, procs)
            /\ \/ p.raced
               \/ CopiesIn([p EXCEPT !.raced = TRUE], procs')
                      <= CopiesIn([p EXCEPT !.raced = TRUE], procs)
            /\ last'.result # "unanswered" )
          => /\ last'.kind = p.kind /\ last'.result = "failure"
             /\ procs' = procs (-) SetToBag({p})
             /\ products' = products
             /\ channels' = channels
             /\ createdChannels' = createdChannels
             /\ issuedAt' = issuedAt
             /\ deleteTimers' = deleteTimers]_vars

\* the button of the one payment channel, whose topic has no user field,
\* has just been answered with the failure result
C25_ButtonRefused ==
    /\ last.kind = "button" /\ last.result = "failure"
    /\ Len(createdChannels) = 1
    /\ createdChannels[1].topic = "nouser"
    /\ 1 \in channels

\* C26: every channel created is denied to everyone and allowed to its
\* user and to the administrative role.
C26_ChannelsArePrivate ==
    \A c \in DOMAIN createdChannels :
        /\ GuildEveryone \in createdChannels[c].deny
        /\ GuildEveryone \notin createdChannels[c].allow
        /\ Member(createdChannels[c].userId) \in createdChannels[c].allow
        /\ AdminRole \in createdChannels[c].allow
        /\ createdChannels[c].deny \cap createdChannels[c].allow = {}

\* a payment channel, a delivery channel and a chat channel have been
\* created
C26_AllKindsCreated ==
    \A k \in {"payment", "delivery", "sitechat"} :
        \E c \in DOMAIN createdChannels : createdChannels[c].kind = k

\* C29: an order creation by a logged-in user for an existing product is
\* answered with the payment page and persists exactly one new order, owned
\* by that user, in analise, without receiptUrl and channel and with an
\* empty transcript.
C29_CreatePersistsOneOrder ==
    [][( /\ last'.kind = "create"
         /\ getProductById(products, last'.productId) )
       => /\ last'.result = "rendered"
          /\ \E id \in DOMAIN orders' \ DOMAIN orders :
                /\ DOMAIN orders' = DOMAIN orders \cup {id}
                /\ orders'[id] = OrderRow(last'.userId, Jsonb(<<>>))
          /\ \A o \in DOMAIN orders : orders'[o] = orders[o]]_vars

\* the staff messages of order o that the database was asked to append
StaffAppended(o) ==
    {appended[o][i] : i \in {j \in DOMAIN appended[o] :
                               appended[o][j].author = "staff"}}

\* C28: a web message that is not forwarded, because the order has no
\* channel or because the forward fails, is later posted in the order's
\* platform channel; and the chat page, when it is rendered, shows every
\* staff message that was appended.
C28_EventuallyVisible ==
    /\ \A c \in 1..MaxMessages :
          ( /\ last.kind = "web" /\ last.content = c
            /\ last.result \in {"forward_failed", "no_channel"} )
          ~> ( /\ last.kind = "platform" /\ last.content = c
               /\ last.result = "ignored" )
    /\ []( ( last.kind = "chat" /\ last.result = "rendered" )
           => \A m \in StaffAppended(last.orderId) :
                  \E i \in DOMAIN Transcript(orders, last.orderId) :
                      Transcript(orders, last.orderId)[i] = m )

\* the system message of the deliver action is among the messages of list
HasSystemMessage(list) ==
    \E i \in DOMAIN list : list[i].author = "system"

\* C31: the chat channel bound to a site order is deleted only when the
\* order's status has been written to entregue, the system message is in
\* the stored transcript and has been broadcast to the order's room; one
\* deliver action sets at most one deletion timer; a deletion that fails
\* changes no order and leaves the status at entregue.
C31_DeletedAfterDelivery ==
    [][ /\ \A c \in channels \ channels' :
              createdChannels[c].kind = "sitechat"
              => LET o == createdChannels[c].orderId
                 IN  /\ CopiesIn(c, deleteTimers) > 0
                     /\ orders[o].status = "entregue"
                     /\ HasSystemMessage(appended[o])
                     /\ HasSystemMessage(Transcript(orders, o))
                     /\ HasSystemMessage(room[o])
        /\ BagCardinality(scheduled') <= BagCardinality(scheduled) + 1
        /\ scheduled' # scheduled
              => /\ last'.kind = "post" /\ last'.action = "deliver"
                 /\ last'.result = "success"
        /\ \A c \in BagToSet(deleteTimers) :
              ( /\ c \notin channels
                /\ CopiesIn(c, deleteTimers') < CopiesIn(c, deleteTimers)
                /\ last' = NoAnswer )
              => /\ orders' = orders
                 /\ orders[createdChannels[c].orderId].status = "entregue"
      ]_vars

\* the channels of one kind
ChannelsOf(kind) ==
    {c \in DOMAIN createdChannels : createdChannels[c].kind = kind}

\* C32: a delivery channel is created only by a confirmation whose payment
\* channel is already deleted, and no payment channel exists together with
\* a delivery channel of the same user and product; a ticket's delivery
\* token is issued for a delivery channel that exists, the one its
\* confirmation created; a delivery channel is deleted only by the timer
\* that a deliver action on a delivery token set for it.
C32_TicketLifecycle ==
    [][ /\ \A d \in DOMAIN createdChannels' \ DOMAIN createdChannels :
              createdChannels'[d].kind = "delivery"
              => \E p \in Handlers :
                    /\ p.pc = "p_create"
                    /\ CopiesIn(p, procs') < CopiesIn(p, procs)
                    /\ p.chan \in ChannelsOf("payment")
                    /\ p.chan \notin channels \cup channels'
        /\ \A c, d \in channels' :
              ( /\ createdChannels'[c].kind = "payment"
                /\ createdChannels'[d].kind = "delivery" )
              => \/ createdChannels'[d].userId # createdChannels'[c].userId
                 \/ createdChannels'[d].productId
                        # createdChannels'[c].productId
        /\ ( /\ Len(issuedAt') > Len(issuedAt)
             /\ issuedAt'[Len(issuedAt')].action = "deliver" )
           => LET ctx == verificationTokens'[Len(issuedAt')].context
              IN  /\ ctx.type = "ticket"
                  /\ ctx.channelId \in channels \cap ChannelsOf("delivery")
                  /\ \E p \in Handlers :
                        /\ p.pc = "p_notify" /\ p.made = ctx.channelId
                        /\ CopiesIn(p, procs') < CopiesIn(p, procs)
        /\ \A d \in (channels \ channels') \cap ChannelsOf("delivery") :
              /\ CopiesIn(d, deleteTimers) > 0
              /\ CopiesIn(d, scheduled) > 0
        /\ \A d \in ChannelsOf("delivery") :
              CopiesIn(d, scheduled') > CopiesIn(d, scheduled)
              => \E p \in Handlers :
                    /\ p.kind = "post" /\ p.action = "deliver"
                    /\ p.pc = "td_notify" /\ p.chan = d
                    /\ CopiesIn(p, procs') < CopiesIn(p, procs)
                    /\ issuedAt[p.tok].action = "deliver"
                    /\ p.tok \in DOMAIN verificationTokens
                          => verificationTokens[p.tok].context.channelId = d
      ]_vars

\* the ticket has run to its end: its payment channel is deleted, and the
\* delivery channel that its confirmation created has been deleted by the
\* timer of its deliver action
C32_DeliveryChannelDeleted ==
    /\ channels = {}
    /\ \E d \in ChannelsOf("delivery") :
          CopiesIn(d, scheduled) > 0 /\ CopiesIn(d, deleteTimers) = 0

\* C33: every message broadcast to an order's room is in that order's
\* stored transcript when it is broadcast.
C33_BroadcastIsStored ==
    [][\A o \in DOMAIN room' :
          ( o \in DOMAIN room /\ Len(room'[o]) > Len(room[o]) )
          => \E i \in DOMAIN Transcript(orders', o) :
                 Transcript(orders', o)[i] = room'[o][Len(room'[o])]]_vars

\* the statuses in which the chat page is served
ChatEnabled == {"approved", "entregue"}

\* C34: a user or staff message is appended to an order's stored
\* transcript only while the order's status is approved or entregue.
C34_AppendOnlyWhileChatEnabled ==
    [][\A o \in DOMAIN orders :
          ( /\ Len(Transcript(orders', o)) > Len(Transcript(orders, o))
            /\ Transcript(orders', o)[Len(Transcript(orders', o))].author
                   \in {"user", "staff"} )
          => orders[o].status \in ChatEnabled]_vars

\* C35: a socket receives the messages of an order only if its user owns
\* the order.
C35_RoomIsPrivate ==
    \A u \in DOMAIN sockets :
        \A e \in sockets[u].inbox : getOrderById(orders, e[1], u)

\* the chat channels ever created for order o
ChatChannelsOf(o) ==
    {c \in DOMAIN createdChannels :
        /\ createdChannels[c].kind = "sitechat"
        /\ createdChannels[c].orderId = o}

\* C36: when a deliver action of a site order is answered with success,
\* every chat channel ever created for the order has a deletion timer set
\* for it, then or before.
C36_NoOrphanChannel ==
    [][( /\ last'.kind = "post" /\ last'.action = "deliver"
         /\ last'.result = "success" )
       => \A c \in ChatChannelsOf(last'.orderId) :
              CopiesIn(c, scheduled') > 0]_vars

\* the units of product i that confirmations have taken: the delivery
\* channels created for it, and the confirmations that are past the
\* decrement and have not yet created their channel
Taken(i) ==
    Cardinality({d \in ChannelsOf("delivery") :
                    createdChannels[d].productId = i})
    + Running({q \in Handlers : /\ q.productId = i
                                /\ q.pc \in {"p_delete", "p_create"}})

\* C37: a product of finite stock is never oversold: no step lets the
\* units taken by confirmations and the units left in stock add up to more
\* than before, so the delivery channels created for the product never
\* outnumber its initial stock, and a confirmation that finds the stock at 0
\* takes no unit.
C37_NoOverselling ==
    [][\A i \in DOMAIN products :
          products[i] # -1
          => Taken(i)' + products'[i] <= Taken(i) + products[i]]_vars

\* the payment channel c has been deleted by a confirmation that went on to
\* create the delivery channel of its user and product
Confirmed(c) ==
    /\ c \in ChannelsOf("payment") /\ c \notin channels
    /\ \E d \in ChannelsOf("delivery") :
          /\ d > c
          /\ createdChannels[d].userId = createdChannels[c].userId
          /\ createdChannels[d].productId = createdChannels[c].productId

\* C38: a payment confirmation that looks for a payment channel which a
\* completed confirmation has deleted decreases no stock, creates and
\* deletes no channel and issues no token; unless the platform rejects a
\* fetch before the channel is looked for, it returns the failure result,
\* and a POST then consumes its token.
C38_LateConfirmationFails ==
    [][\A p \in Handlers :
          ( /\ p.pc = "p_fetch" /\ Confirmed(p.chan)
            /\ CopiesIn(p, procs') < CopiesIn(p, procs)
            /\ \/ p.raced
               \/ CopiesIn([p EXCEPT !.raced = TRUE], procs')
                      <= CopiesIn([p EXCEPT !.raced = TRUE], procs) )
          => /\ products' = products
             /\ channels' = channels
             /\ createdChannels' = createdChannels
             /\ issuedAt' = issuedAt
             /\ last'.result # "unanswered"
                => /\ last'.kind = p.kind /\ last'.result = "failure"
                   /\ p.kind = "post"
                      => p.tok \notin DOMAIN verificationTokens']_vars

\* the approve POST of the proof token of a payment channel has just been
\* answered with the failure result, after the button's confirmation
\* deleted the channel and created the delivery channel
C38_ApproveAfterConfirmation ==
    /\ last.kind = "post" /\ last.action = "approve"
    /\ last.result = "failure"
    /\ \E c \in ChannelsOf("payment") : Confirmed(c)
    /\ last.tok \notin DOMAIN verificationTokens

\* the actions that processVerificationAction has a branch for
KnownActions == {"approve", "reject", "deliver"}

====
